---- MODULE Spec2Model ----
(***************************************************************************)
(* Model of audio_splitter.py: split_audio_by_size and main.                *)
(*                                                                          *)
(* One command-line run is a walk of pc through the statements of           *)
(* split_audio_by_size, cut at the calls of the external tools, followed by *)
(* main's handling of the outcome.  The output directory survives a run, so *)
(* a later run starts with what earlier runs left on disk.                  *)
(*                                                                          *)
(* Durations are whole seconds, times on the progress bar are               *)
(* centiseconds, and the division of step 4 is exact; floating-point        *)
(* rounding is not modelled.                                                *)
(***************************************************************************)
EXTENDS Integers, Sequences, FiniteSets, TLC

VARIABLES
    pc,               \* position of the run
    tools_available,  \* shutil.which finds both ffmpeg and ffprobe
    source_exists,    \* source_path.is_file()
    chunk_size_mb,    \* argument chunk_size_mb
    output_dir_exists,\* <stem>_chunks exists
    temp_exists,      \* temp_<stem>.flac exists in the output directory
    temp_size,        \* its size in bytes
    chunks,           \* indices i of the files part_<%03d i>.flac on disk
    probe_out,        \* outcome of the ffprobe invocation
    total_duration,   \* seconds
    analyze_rc,       \* exit status of the calibration encode
    segment_duration, \* seconds
    split_rc,         \* process.returncode of the segmentation encode
    ops,              \* file-system tests and external tools used by this call
    pbar_n,           \* tqdm's pbar.n, centiseconds
    previous_time,    \* centiseconds
    lines_read,       \* lines consumed from process.stderr
    error,            \* exception leaving split_audio_by_size, or "none"
    result,           \* list returned by split_audio_by_size
    exit_code         \* exit status of the command-line run, -1 while running

vars == <<pc, tools_available, source_exists, chunk_size_mb, output_dir_exists,
          temp_exists, temp_size, chunks, probe_out, total_duration, analyze_rc,
          segment_duration, split_rc, ops, pbar_n,
          previous_time, lines_read, error, result, exit_code>>

(***************************************************************************)
(* Bounds of the model.                                                     *)
(***************************************************************************)
MaxChunkMb == 1        \* chunk sizes -1 .. MaxChunkMb megabytes
MaxDuration == 4       \* short sources last 0 .. MaxDuration seconds
LongDuration == 1001   \* one long source, longer than %03d can number
MaxSizeUnits == 4      \* calibration files of 0 .. MaxSizeUnits half-megabytes
MaxMarkerMin == 1      \* minutes field of a progress marker
MaxMarkerSec == 1      \* seconds field of a progress marker
MaxLines == 2          \* lines read from the diagnostic stream
MaxPartial == 1        \* chunks a failing segmentation leaves behind

(***************************************************************************)
(* Program constants.                                                       *)
(***************************************************************************)
MiB == 1024 * 1024
FallbackSegment == 60
PadWidth == 3

ChunkSizes == (-1) .. MaxChunkMb
Durations == (0 .. MaxDuration) \cup {LongDuration}
CalibSizes == {k * (MiB \div 2) : k \in 0 .. MaxSizeUnits} \cup {LongDuration * MiB}

(***************************************************************************)
(* Character codes of the file names.                                       *)
(***************************************************************************)
PartPrefix == <<112, 97, 114, 116, 95>>      \* "part_"
FlacSuffix == <<46, 102, 108, 97, 99>>       \* ".flac"

RECURSIVE Digits(_)
Digits(i) == IF i < 10 THEN <<48 + i>> ELSE Digits(i \div 10) \o <<48 + (i % 10)>>

RECURSIVE ZeroPad(_, _)
ZeroPad(s, w) == IF Len(s) >= w THEN s ELSE ZeroPad(<<48>> \o s, w)

\* the name ffmpeg's segment muxer gives chunk i under the pattern part_%03d.flac
ChunkName(i) == PartPrefix \o ZeroPad(Digits(i), PadWidth) \o FlacSuffix

RECURSIVE StrLessFrom(_, _, _)
StrLessFrom(a, b, i) ==
    IF i > Len(a) THEN i <= Len(b)
    ELSE IF i > Len(b) THEN FALSE
    ELSE IF a[i] # b[i] THEN a[i] < b[i]
    ELSE StrLessFrom(a, b, i + 1)

\* Python's < on str: code-point order, a proper prefix sorts first
StrLess(a, b) == StrLessFrom(a, b, 1)

\* every index a chunk file can carry: a segment lasts at least one second
ChunkIndices == [i \in 1 .. LongDuration + 1 |-> i - 1]

\* output_dir.glob("part_*.flac"): the chunk files on disk, in directory order
GlobParts(files) ==
    LET present == SelectSeq(ChunkIndices, LAMBDA i : i \in files)
    IN  [k \in 1 .. Len(present) |-> ChunkName(present[k])]

\* sorted([str(f) for f in output_dir.glob("part_*.flac")])
SortedChunkFiles(files) == SortSeq(GlobParts(files), StrLess)

(***************************************************************************)
(* Exceptions.                                                              *)
(***************************************************************************)
\* the Python class of each exception that can leave split_audio_by_size
ExceptionClass(err) ==
    CASE err = "DependencyMissing" -> "RuntimeError"
      [] err = "SourceNotFound" -> "FileNotFoundError"
      [] err = "ProbeFailure" -> "RuntimeError"
      [] err = "EncodeFailure" -> "RuntimeError"
      [] OTHER -> err

\* except (subprocess.CalledProcessError, ValueError) as e:
\*     raise RuntimeError(f"...{e.stderr or e}")
\* a ValueError has no attribute stderr: the handler itself raises
ProbeHandler(caught) ==
    IF caught = "CalledProcessError" THEN "ProbeFailure" ELSE "AttributeError"

(***************************************************************************)
(* Step 4: the segment duration.                                            *)
(***************************************************************************)
\* temp_file_size_bytes / total_duration, then chunk_size_bytes / bytes_per_second:
\* either division raises ZeroDivisionError on a zero divisor
StepFourRaises(size, duration) == duration = 0 \/ size = 0

\* math.floor(chunk_size_bytes / (size / duration)), for size > 0 and duration > 0
FloorSegment(mb, size, duration) == (mb * MiB * duration) \div size

SegmentDuration(mb, size, duration) ==
    IF FloorSegment(mb, size, duration) <= 0 THEN FallbackSegment
    ELSE FloorSegment(mb, size, duration)

TempKept(exists) == exists

\* finally: if temp_flac_path.exists(): temp_flac_path.unlink()
TempAfterCleanup(exists) == IF exists THEN FALSE ELSE exists

(***************************************************************************)
(* Step 5: what the segmentation encode writes.                             *)
(***************************************************************************)
\* number of segments of segment_time seconds in a stream of duration seconds
SegmentCount(duration, segment_time) == (duration + segment_time - 1) \div segment_time

\* a failing encode has written none, some or all of its segments
PartialCounts(count) == {n \in 0 .. count : n <= MaxPartial \/ n = count}

(***************************************************************************)
(* Step 6: the progress markers.                                            *)
(***************************************************************************)
NoMatch == <<>>

\* the groups of time=(\d{2}):(\d{2}):(\d{2})\.(\d{2}) in a line of the stream
Markers == {<<h, m, sec, cs>> : h \in {0}, m \in 0 .. MaxMarkerMin,
                                sec \in 0 .. MaxMarkerSec, cs \in {0, 50}}

Lines == {NoMatch} \cup Markers

\* h * 3600 + m * 60 + s + ms / 100, in centiseconds
CurrentTime(g) == (g[1] * 3600 + g[2] * 60 + g[3]) * 100 + g[4]

\* tqdm.update(delta): self.n += delta
TqdmUpdate(n, delta) == n + delta

(***************************************************************************)
(* main: the exit status of the run.                                        *)
(***************************************************************************)
\* except (FileNotFoundError, RuntimeError): sys.exit(1); an exception main does
\* not catch ends the interpreter with status 1 as well
ExitStatus(err) ==
    IF err = "none" THEN 0
    ELSE IF ExceptionClass(err) \in {"FileNotFoundError", "RuntimeError"} THEN 1
    ELSE 1

(***************************************************************************)
(* The state after construction: nothing has run, nothing is on disk.       *)
(***************************************************************************)
Init ==
    /\ pc = "idle"
    /\ tools_available = TRUE
    /\ source_exists = TRUE
    /\ chunk_size_mb = 0
    /\ output_dir_exists = FALSE
    /\ temp_exists = FALSE
    /\ temp_size = 0
    /\ chunks = {}
    /\ probe_out = "none"
    /\ total_duration = 0
    /\ analyze_rc = -1
    /\ segment_duration = 0
    /\ split_rc = -1
    /\ ops = {}
    /\ pbar_n = 0
    /\ previous_time = 0
    /\ lines_read = 0
    /\ error = "none"
    /\ result = <<>>
    /\ exit_code = -1

disk == <<output_dir_exists, temp_exists, temp_size, chunks>>
progress == <<pbar_n, previous_time, lines_read>>
inputs == <<tools_available, source_exists, chunk_size_mb>>

\* main calls split_audio_by_size(args.input_file, args.size)
Call ==
    /\ pc \in {"idle", "exited"}
    /\ \E t \in BOOLEAN, e \in BOOLEAN, mb \in ChunkSizes :
          /\ tools_available' = t
          /\ source_exists' = e
          /\ chunk_size_mb' = mb
    /\ pc' = "deps"
    /\ probe_out' = "none"
    /\ total_duration' = 0
    /\ analyze_rc' = -1
    /\ segment_duration' = 0
    /\ split_rc' = -1
    /\ ops' = {}
    /\ pbar_n' = 0
    /\ previous_time' = 0
    /\ lines_read' = 0
    /\ error' = "none"
    /\ result' = <<>>
    /\ exit_code' = -1
    /\ UNCHANGED disk

\* a raise that leaves split_audio_by_size
Raise(err) ==
    /\ pc' = "raised"
    /\ error' = err

CheckDependenciesLate ==
    /\ pc = "deps"
    /\ ops' = ops \cup {"is_file"}
    /\ IF ~source_exists THEN Raise("SourceNotFound")
       ELSE IF ~tools_available THEN Raise("DependencyMissing")
       ELSE pc' = "mkdir" /\ UNCHANGED error
    /\ UNCHANGED <<inputs, disk, progress, probe_out, total_duration, analyze_rc,
                   segment_duration, split_rc, result, exit_code>>

\* if not shutil.which("ffmpeg") or not shutil.which("ffprobe"): raise RuntimeError
CheckDependencies ==
    /\ pc = "deps"
    /\ IF ~tools_available THEN Raise("DependencyMissing")
       ELSE pc' = "file" /\ UNCHANGED error
    /\ UNCHANGED <<inputs, disk, progress, probe_out, total_duration, analyze_rc,
                   segment_duration, split_rc, ops, result, exit_code>>

CheckSourceLate ==
    /\ pc = "file"
    /\ ops' = ops \cup {"is_file", "mkdir"}
    /\ output_dir_exists' = TRUE
    /\ IF ~source_exists THEN Raise("SourceNotFound")
       ELSE pc' = "mkdir" /\ UNCHANGED error
    /\ UNCHANGED <<inputs, temp_exists, temp_size, chunks, progress, probe_out,
                   total_duration, analyze_rc, segment_duration, split_rc, result,
                   exit_code>>

\* if not source_path.is_file(): raise FileNotFoundError
CheckSource ==
    /\ pc = "file"
    /\ ops' = ops \cup {"is_file"}
    /\ IF ~source_exists THEN Raise("SourceNotFound")
       ELSE pc' = "mkdir" /\ UNCHANGED error
    /\ UNCHANGED <<inputs, disk, progress, probe_out, total_duration, analyze_rc,
                   segment_duration, split_rc, result, exit_code>>

\* output_dir.mkdir(exist_ok=True)
MakeOutputDir ==
    /\ pc = "mkdir"
    /\ ops' = ops \cup {"mkdir"}
    /\ output_dir_exists' = TRUE
    /\ pc' = "probe"
    /\ UNCHANGED <<inputs, temp_exists, temp_size, chunks, progress, probe_out,
                   total_duration, analyze_rc, segment_duration, split_rc, error,
                   result, exit_code>>

\* subprocess.run(duration_cmd, check=True); float(result.stdout.strip())
ProbeDuration ==
    /\ pc = "probe"
    /\ ops' = ops \cup {"ffprobe"}
    /\ \/ /\ probe_out' = "nonzero"
          /\ Raise(ProbeHandler("CalledProcessError"))
          /\ UNCHANGED total_duration
       \/ /\ probe_out' = "unparsable"
          /\ Raise(ProbeHandler("ValueError"))
          /\ UNCHANGED total_duration
       \/ \E d \in Durations :
             /\ probe_out' = "ok"
             /\ total_duration' = d
             /\ pc' = "analyze"
             /\ UNCHANGED error
    /\ UNCHANGED <<inputs, disk, progress, analyze_rc, segment_duration, split_rc,
                   result, exit_code>>

\* subprocess.run(analyze_cmd, check=True, capture_output=True)
AnalyzeEncode ==
    /\ pc = "analyze"
    /\ ops' = ops \cup {"ffmpeg_analyze"}
    /\ \/ \E size \in CalibSizes :
             /\ analyze_rc' = 0
             /\ temp_exists' = TRUE
             /\ temp_size' = size
             /\ pc' = "compute"
       \/ \E left \in BOOLEAN :
             /\ analyze_rc' = 1
             /\ temp_exists' = (temp_exists \/ left)
             /\ temp_size' = 0
             /\ pc' = "analyze_failed"
    /\ UNCHANGED <<inputs, output_dir_exists, chunks, progress, probe_out,
                   total_duration, segment_duration, split_rc, error, result,
                   exit_code>>

\* lines 74-85 of the try block, then the finally block
ComputeSegment ==
    /\ pc = "compute"
    /\ IF StepFourRaises(temp_size, total_duration)
       THEN Raise("ZeroDivisionError") /\ UNCHANGED segment_duration
       ELSE /\ segment_duration' = SegmentDuration(chunk_size_mb, temp_size, total_duration)
            /\ pc' = "segment"
            /\ UNCHANGED error
    /\ temp_exists' = TempAfterCleanup(temp_exists)
    /\ temp_size' = IF temp_exists' THEN temp_size ELSE 0
    /\ UNCHANGED <<inputs, output_dir_exists, chunks, progress, probe_out,
                   total_duration, analyze_rc, split_rc, ops, result, exit_code>>

\* except subprocess.CalledProcessError: raise RuntimeError, then the finally block
AnalyzeFailed ==
    /\ pc = "analyze_failed"
    /\ Raise("EncodeFailure")
    /\ temp_exists' = TempAfterCleanup(temp_exists)
    /\ temp_size' = IF temp_exists' THEN temp_size ELSE 0
    /\ UNCHANGED <<inputs, output_dir_exists, chunks, progress, probe_out,
                   total_duration, analyze_rc, segment_duration, split_rc, ops,
                   result, exit_code>>

\* process = subprocess.Popen(split_cmd, ...); with tqdm(total=total_duration)
StartSegment ==
    /\ pc = "segment"
    /\ ops' = ops \cup {"ffmpeg_split"}
    /\ pbar_n' = 0
    /\ previous_time' = 0
    /\ lines_read' = 0
    /\ pc' = "progress"
    /\ UNCHANGED <<inputs, disk, probe_out, total_duration, analyze_rc,
                   segment_duration, split_rc, error, result, exit_code>>

\* one iteration of: for line in process.stderr
ReadLine ==
    /\ pc = "progress"
    /\ lines_read < MaxLines
    /\ lines_read' = lines_read + 1
    /\ \E line \in Lines :
          IF line # NoMatch
          THEN /\ pbar_n' = TqdmUpdate(pbar_n, CurrentTime(line) - previous_time)
               /\ previous_time' = CurrentTime(line)
          ELSE UNCHANGED <<pbar_n, previous_time>>
    /\ UNCHANGED <<pc, inputs, disk, probe_out, total_duration, analyze_rc,
                   segment_duration, split_rc, ops, error, result, exit_code>>

\* the stream ends: if pbar.n < total_duration: pbar.update(total_duration - pbar.n)
EndOfStream ==
    /\ pc = "progress"
    /\ pbar_n' = IF pbar_n < total_duration * 100
                 THEN TqdmUpdate(pbar_n, total_duration * 100 - pbar_n)
                 ELSE pbar_n
    /\ pc' = "wait"
    /\ UNCHANGED <<inputs, disk, previous_time, lines_read, probe_out,
                   total_duration, analyze_rc, segment_duration, split_rc, ops,
                   error, result, exit_code>>

\* process.wait() and what follows it, down to the return
WaitProcess ==
    /\ pc = "wait"
    /\ LET count == SegmentCount(total_duration, segment_duration) IN
       \/ /\ split_rc' = 0
          /\ chunks' = chunks \cup (0 .. count - 1)
          /\ result' = SortedChunkFiles(chunks')
       \/ \E n \in PartialCounts(count) :
             /\ split_rc' = 1
             /\ chunks' = chunks \cup (0 .. n - 1)
             /\ result' = <<>>
    /\ pc' = "returned"
    /\ UNCHANGED <<inputs, output_dir_exists, temp_exists, temp_size, progress,
                   probe_out, total_duration, analyze_rc, segment_duration, ops,
                   error, exit_code>>

\* main: the try/except around the call, and the end of the process
MainExit ==
    /\ pc \in {"returned", "raised"}
    /\ exit_code' = ExitStatus(error)
    /\ pc' = "exited"
    /\ UNCHANGED <<inputs, disk, progress, probe_out, total_duration, analyze_rc,
                   segment_duration, split_rc, ops, error, result>>

Next ==
    \/ Call
    \/ CheckDependencies
    \/ CheckSource
    \/ MakeOutputDir
    \/ ProbeDuration
    \/ AnalyzeEncode
    \/ ComputeSegment
    \/ AnalyzeFailed
    \/ StartSegment
    \/ ReadLine
    \/ EndOfStream
    \/ WaitProcess
    \/ MainExit

Spec == Init /\ [][Next]_vars

(***************************************************************************)
(* Vocabulary of the properties.                                            *)
(***************************************************************************)
ExternalTools == {"ffprobe", "ffmpeg_analyze", "ffmpeg_split"}

DefinedErrors == {"DependencyMissing", "SourceNotFound", "ProbeFailure", "EncodeFailure"}

Finished == pc \in {"returned", "raised", "exited"}

RECURSIVE DigitsValue(_)
DigitsValue(d) ==
    IF d = <<>> THEN 0
    ELSE 10 * DigitsValue(SubSeq(d, 1, Len(d) - 1)) + (d[Len(d)] - 48)

\* the numeric index in a chunk file name part_<index>.flac
IndexOf(name) ==
    DigitsValue(SubSeq(name, Len(PartPrefix) + 1, Len(name) - Len(FlacSuffix)))

OnDisk(name) == IndexOf(name) \in chunks /\ ChunkName(IndexOf(name)) = name

\* C1: a call on an existing source file either returns a non-empty list of
\* chunk paths that all exist in the output directory, or raises one of the
\* four defined error kinds; it never returns an empty list and never raises
\* another kind of error.
C1_ReturnsChunksOrDefinedError ==
    source_exists =>
        /\ pc = "returned" =>
              /\ result # <<>>
              /\ \A k \in 1 .. Len(result) : OnDisk(result[k])
        /\ pc = "raised" => error \in DefinedErrors

\* C2: the run exits with code 0 only when the split succeeded, and with code
\* 1 whenever a stage failed: missing tools, missing source, probe failure,
\* non-zero exit of the calibration encode or of the segmentation encode.
C2_ExitCodeTellsFailure ==
    pc = "exited" =>
        LET stage_failed == \/ ~tools_available
                            \/ ~source_exists
                            \/ probe_out \in {"nonzero", "unparsable"}
                            \/ analyze_rc > 0
                            \/ split_rc > 0
        IN  /\ exit_code \in {0, 1}
            /\ stage_failed => exit_code = 1
            /\ exit_code = 0 => (error = "none" /\ split_rc = 0)

\* C3: when ffprobe exits non-zero or its output does not parse as a float,
\* the call fails with the probe-failure RuntimeError and neither ffmpeg
\* encode is started.
C3_ProbeFailureRaisesRuntimeError ==
    (Finished /\ probe_out \in {"nonzero", "unparsable"}) =>
        /\ error = "ProbeFailure"
        /\ ExceptionClass(error) = "RuntimeError"
        /\ ops \cap {"ffmpeg_analyze", "ffmpeg_split"} = {}

\* C4: once the call has returned or raised after reaching the calibration
\* stage, the temporary calibration file does not exist.
C4_TempFileNeverPersists ==
    (Finished /\ "ffmpeg_analyze" \in ops) => ~temp_exists

\* a call whose calibration encode wrote the file and whose step 4 then raised
C4_Witness ==
    /\ pc = "raised"
    /\ analyze_rc = 0
    /\ error = "ZeroDivisionError"
    /\ ~temp_exists

\* a successful call
Succeeded == pc = "returned" /\ split_rc = 0

\* C5: a successful call returns exactly ceil(D / T) paths, part_000.flac up
\* to part_<ceil(D/T)-1>.flac, whatever the output directory held before.
C5_ReturnsCeilChunks ==
    Succeeded =>
        /\ Len(result) = SegmentCount(total_duration, segment_duration)
        /\ \A k \in 1 .. Len(result) :
              IndexOf(result[k]) < SegmentCount(total_duration, segment_duration)

\* C6: the returned list is in ascending order of the numeric chunk index,
\* also when chunks are numbered 1000 and above.
C6_AscendingNumericOrder ==
    Succeeded =>
        \A k \in 1 .. Len(result) - 1 : IndexOf(result[k]) < IndexOf(result[k + 1])

\* C7 as stated: a call with a path that is no existing file raises
\* FileNotFoundError, having invoked no external tool and created no directory.
C7_MissingSourceRaisesNotFound ==
    (pc = "raised" /\ ~source_exists) =>
        /\ error = "SourceNotFound"
        /\ ops \cap (ExternalTools \cup {"mkdir"}) = {}

\* C7 amended: when ffmpeg and ffprobe are available, a call with a path that
\* is no existing file raises FileNotFoundError, having invoked no external
\* tool and created no directory.
C7_MissingSourceWithTools ==
    (tools_available /\ ~source_exists /\ pc \notin {"deps", "file"}) =>
        /\ Finished
        /\ error = "SourceNotFound"
        /\ ExceptionClass(error) = "FileNotFoundError"
        /\ ops \cap (ExternalTools \cup {"mkdir"}) = {}

C7_Witness ==
    /\ pc = "raised"
    /\ tools_available
    /\ ~source_exists
    /\ error = "SourceNotFound"
    /\ "is_file" \in ops

\* C8: when ffmpeg or ffprobe is missing, the call raises dependency-missing
\* first: the source has not been tested, no directory made, no tool invoked,
\* whether or not the source file exists.
C8_DependencyCheckFirst ==
    (~tools_available /\ pc # "deps") =>
        /\ Finished
        /\ error = "DependencyMissing"
        /\ ops = {}

C8_Witness ==
    /\ pc = "raised"
    /\ ~tools_available
    /\ ~source_exists
    /\ error = "DependencyMissing"

\* C9: whenever the calibration encode succeeds, step 4 completes with a
\* positive integer segment duration: the floor of chunk bytes over bytes per
\* second when that is above 0, else 60; zero durations and zero-byte
\* calibration files included.
C9_SegmentDurationPositive ==
    [][pc = "compute" =>
          /\ pc' = "segment"
          /\ error' = "none"
          /\ segment_duration' > 0
          /\ (temp_size > 0 /\ total_duration > 0) =>
                LET q == (chunk_size_mb * MiB * total_duration) \div temp_size
                IN  segment_duration' = IF q > 0 THEN q ELSE FallbackSegment]_vars

\* C10: during the segmentation pass the progress reported to the bar never
\* decreases from one update to the next, whatever markers are read.
C10_ProgressNeverDecreases ==
    [][(pc = "progress" /\ pc' \in {"progress", "wait"}) => pbar_n' >= pbar_n]_vars

====
